---- MODULE Spec2Model ----
(***************************************************************************)
(* State-machine model of FileSelectorTool (src/src/index.js): one block   *)
(* instance, its DOM wrapper, the uploads it has started through the       *)
(* Uploader collaborator and the pending removeLoader timers.              *)
(*                                                                         *)
(* A JavaScript value that may be undefined/null is a sequence of length   *)
(* at most one: <<>> is undefined, <<v>> is the value v.  Strings are TLA+ *)
(* strings, so split/pop/toLowerCase are computed character by character.  *)
(***************************************************************************)
EXTENDS Integers, Sequences, FiniteSets, TLC

VARIABLES config, _data, _displayData, nodes, inflight, timers, lastEvent,
          notified, dispatched, lastSuccess

vars == <<config, _data, _displayData, nodes, inflight, timers, lastEvent,
          notified, dispatched, lastSuccess>>

(* ------------------------------------------------------------------ *)
(* Bounds                                                             *)
(* ------------------------------------------------------------------ *)

\* Uploads started and not yet completed, plus removeLoader timers not yet
\* fired, that the model lets coexist.
MaxPending == 2

\* Delay, in milliseconds, of every removeLoader timer.
LOADER_TIMEOUT == 500

(* ------------------------------------------------------------------ *)
(* JavaScript values                                                  *)
(* ------------------------------------------------------------------ *)

Undef == <<>>

Some(v) == <<v>>

\* ToBoolean of a string-or-undefined value: undefined and '' are falsy.
TruthyStr(o) == o # Undef /\ o[1] # ""

\* ToBoolean of a number-or-undefined value: undefined and 0 are falsy.
TruthyNum(o) == o # Undef /\ o[1] # 0

Abs(n) == IF n < 0 THEN -n ELSE n

UpperCaseLetters == "ABCDEFGHIJKLMNOPQRSTUVWXYZ"

LowerCaseLetters == "abcdefghijklmnopqrstuvwxyz"

\* String.prototype.toLowerCase on one character (ASCII letters).
LowerChar(c) ==
  IF \E i \in 1..26 : SubSeq(UpperCaseLetters, i, i) = c
    THEN LET i == CHOOSE j \in 1..26 : SubSeq(UpperCaseLetters, j, j) = c
         IN  SubSeq(LowerCaseLetters, i, i)
    ELSE c

RECURSIVE ToLowerCase(_)
ToLowerCase(s) ==
  IF Len(s) = 0 THEN ""
  ELSE LowerChar(SubSeq(s, 1, 1)) \o ToLowerCase(SubSeq(s, 2, Len(s)))

\* String.prototype.split(sep) for a one-character separator.
RECURSIVE Split(_, _)
Split(s, sep) ==
  IF \E i \in 1..Len(s) : SubSeq(s, i, i) = sep
    THEN LET i == CHOOSE j \in 1..Len(s) :
                    /\ SubSeq(s, j, j) = sep
                    /\ \A k \in 1..(j - 1) : SubSeq(s, k, k) # sep
         IN  <<SubSeq(s, 1, i - 1)>> \o Split(SubSeq(s, i + 1, Len(s)), sep)
    ELSE <<s>>

\* Array.prototype.pop: the last element.
Pop(a) == a[Len(a)]

(* ------------------------------------------------------------------ *)
(* Static tables                                                      *)
(* ------------------------------------------------------------------ *)

CSS ==
  [ baseClass       |-> "cdx-block",
    apiButton       |-> "cdx-button",
    loader          |-> "cdx-loader",
    wrapper         |-> "cdx-file-selector",
    wrapperWithFile |-> "cdx-file-selector--with-file",
    wrapperLoading  |-> "cdx-file-selector--loading",
    button          |-> "cdx-file-selector__button",
    title           |-> "cdx-file-selector__title",
    size            |-> "cdx-file-selector__size",
    fileInfo        |-> "cdx-file-selector__file-info",
    fileIcon        |-> "cdx-file-selector__file-icon" ]

\* The own properties of the object literal returned by get EXTENSIONS().
EXTENSIONS ==
  [ doc    |-> "#3e74da", docx |-> "#3e74da", odt  |-> "#3e74da",
    pdf    |-> "#d47373", rtf  |-> "#656ecd", tex  |-> "#5a5a5b",
    txt    |-> "#5a5a5b", pptx |-> "#e07066", ppt  |-> "#e07066",
    mp3    |-> "#eab456", mp4  |-> "#f676a6", xls  |-> "#3f9e64",
    xlsx   |-> "#3f9e64", html |-> "#2988f0", htm  |-> "#2988f0",
    png    |-> "#f676a6", jpg  |-> "#f67676", jpeg |-> "#f67676",
    gif    |-> "#f6af76", zip  |-> "#4f566f", rar  |-> "#4f566f",
    exe    |-> "#e26f6f", svg  |-> "#bf5252", key  |-> "#e07066",
    sketch |-> "#df821c", ai   |-> "#df821c", psd  |-> "#388ae5",
    dmg    |-> "#e26f6f", json |-> "#2988f0", csv  |-> "#3f9e64" ]

\* Property names every object literal inherits from Object.prototype.
ObjectPrototypeKeys ==
  { "constructor", "__proto__", "hasOwnProperty", "isPrototypeOf",
    "propertyIsEnumerable", "toLocaleString", "toString", "valueOf",
    "__defineGetter__", "__defineSetter__", "__lookupGetter__",
    "__lookupSetter__" }

\* this.EXTENSIONS[extension]: an own property gives its color string, an
\* inherited property gives a (truthy) function or object, anything else
\* gives undefined.
ExtensionLookup(extension) ==
  IF extension \in DOMAIN EXTENSIONS
    THEN [kind |-> "color", value |-> EXTENSIONS[extension]]
  ELSE IF extension \in ObjectPrototypeKeys
    THEN [kind |-> "inherited", value |-> ""]
    ELSE [kind |-> "undefined", value |-> ""]

(* ------------------------------------------------------------------ *)
(* The tool object                                                    *)
(* ------------------------------------------------------------------ *)

\* `this`: the fields of the tool, with the effects it has on its host
\* (the delays of the setTimeout callbacks pending, oldest first, and the
\* api.notifier.show calls and block.dispatchChange calls made by the
\* handler that ran last).
This ==
  [ config       |-> config,
    _data        |-> _data,
    _displayData |-> _displayData,
    nodes        |-> nodes,
    timers       |-> timers,
    notified     |-> notified,
    dispatched   |-> dispatched ]

\* What a handler sees when it starts: nothing shown or dispatched yet.
Entering == [This EXCEPT !.notified = <<>>, !.dispatched = 0]

\* BlockData {} and the file {} of a fresh _displayData: no field defined.
EmptyFile == [extension |-> Undef, name |-> Undef, size |-> Undef]

EmptyData == [file |-> Undef, title |-> Undef]

\* The constructor's _displayData.
EmptyDisplayData == [file |-> EmptyFile, title |-> Some("")]

\* make(tagName, classNames, attributes): a new element.
make(kind, classNames) ==
  [kind |-> kind, classes |-> classNames, children |-> <<>>, listeners |-> <<>>]

\* addEventListener without the duplicate check: every call registers.
addEventListenerAgain(el, type, callback) ==
  [el EXCEPT !.listeners = Append(@, [type |-> type, callback |-> callback])]

\* EventTarget.addEventListener: a listener already registered for the
\* same type and callback is not added a second time.
addEventListener(el, type, callback) ==
  LET l == [type |-> type, callback |-> callback]
  IN  IF \E i \in 1..Len(el.listeners) : el.listeners[i] = l
        THEN el
        ELSE [el EXCEPT !.listeners = Append(@, l)]

\* Number.prototype.toFixed(1) of the exact quotient n / d, d a power of
\* two: the closest number of tenths, the larger one on a tie.
toFixed1(n, d) ==
  LET t == (20 * n + d) \div (2 * d)
  IN  ToString(t \div 10) \o "." \o ToString(t % 10)

\* Math.log10(+size) >= 6 (log10 is monotone and exact at 10^6).
Log10AtLeast6(size) == size >= 1000000

\* pluginHasData that looks at the title alone.
pluginHasDataTitleOnly(t) == t._displayData.title # Some("")

pluginHasData(t) ==
  \/ t._displayData.title # Some("")
  \/ \E f \in DOMAIN t._displayData.file : t._displayData.file[f] # Undef

prepareUploadButton(t) ==
  LET button == addEventListener(
                  [make("button", {CSS.apiButton, CSS.button})
                     EXCEPT !.children = <<"Icon", t.config.buttonText>>],
                  "click", "enableFileUpload")
  IN  [t EXCEPT !.nodes.button  = "inWrapper",
                !.nodes.wrapper = Some([@[1] EXCEPT !.children = Append(@, button)])]

appendFileIcon(t) ==
  LET extension      == IF TruthyStr(t._displayData.file.extension)
                          THEN t._displayData.file.extension[1] ELSE ""
      extensionColor == ExtensionLookup(extension)
      truthy         == extensionColor.kind # "undefined"
      fileIcon ==
        [ kind      |-> "fileIcon",
          classes   |-> {CSS.fileIcon} \cup
                        (IF truthy /\ Len(extension) > 3 THEN {"longer"} ELSE {}),
          innerHTML |-> IF truthy THEN "CustomFileIcon" ELSE "FileIcon",
          \* style.color keeps '' when the assigned value is not a color
          color     |-> IF extensionColor.kind = "color"
                          THEN extensionColor.value ELSE "",
          dataExtension |-> IF truthy THEN Some(extension) ELSE Undef ]
  IN  [t EXCEPT !.nodes.wrapper = Some([@[1] EXCEPT !.children = Append(@, fileIcon)])]

\* removeLoader that removes the classes at once instead of after
\* LOADER_TIMEOUT.
removeLoaderAtOnce(t) ==
  IF t.nodes.wrapper = Undef
    THEN t
    ELSE [t EXCEPT !.nodes.wrapper =
            Some([@[1] EXCEPT !.classes = @ \ {CSS.wrapperLoading, CSS.loader}])]

\* removeLoader(): one more callback waits for LOADER_TIMEOUT to elapse.
removeLoader(t) == [t EXCEPT !.timers = Append(@, LOADER_TIMEOUT)]

\* The callback removeLoader hands to setTimeout.
removeLoaderCallback(t) ==
  IF t.nodes.wrapper = Undef
    THEN t
    ELSE [t EXCEPT !.nodes.wrapper =
            Some([@[1] EXCEPT !.classes = @ \ {CSS.wrapperLoading, CSS.loader}])]

\* onPreview with classList.toggle in place of classList.add.
onPreviewToggle(t) ==
  IF t.nodes.wrapper = Undef
    THEN t
    ELSE [t EXCEPT !.nodes.wrapper =
            Some([@[1] EXCEPT !.classes =
               (@ \ {CSS.wrapperLoading, CSS.loader})
               \cup ({CSS.wrapperLoading, CSS.loader} \ @)])]

\* The onPreview callback enableFileUpload hands to the uploader.
onPreview(t) ==
  IF t.nodes.wrapper = Undef
    THEN t
    ELSE [t EXCEPT !.nodes.wrapper =
            Some([@[1] EXCEPT !.classes = @ \cup {CSS.wrapperLoading, CSS.loader}])]

showFileData(t) ==
  LET size  == t._displayData.file.size
      title == t._displayData.title
      t1 == [t EXCEPT
               !.nodes.wrapper = Some([@[1] EXCEPT
                                   !.children = <<>>,
                                   !.classes  = @ \cup {CSS.wrapperWithFile}]),
               !.nodes.button  = IF @ = "inWrapper" THEN "detached" ELSE @]
      t2 == appendFileIcon(t1)
      titleEl == [ kind |-> "title", classes |-> {CSS.title},
                   contentEditable |-> FALSE, textContent |-> title[1] ]
      sizeEl  == IF Log10AtLeast6(size[1])
                   THEN [ kind |-> "size", classes |-> {CSS.size},
                          textContent |-> toFixed1(size[1], 2^20),
                          dataSize |-> "MiB" ]
                   ELSE [ kind |-> "size", classes |-> {CSS.size},
                          textContent |-> toFixed1(size[1], 2^10),
                          dataSize |-> "KiB" ]
      fileInfo == [ make("fileInfo", {CSS.fileInfo}) EXCEPT
                      !.children = (IF TruthyStr(title) THEN <<titleEl>> ELSE <<>>)
                                   \o (IF TruthyNum(size) THEN <<sizeEl>> ELSE <<>>) ]
      t3 == [t2 EXCEPT !.nodes.title = IF TruthyStr(title) THEN title ELSE @]
  IN  [t3 EXCEPT !.nodes.wrapper =
         Some(addEventListener([@[1] EXCEPT !.children = Append(@, fileInfo)],
                               "click", "enableFileUpload"))]

render(t) ==
  LET t1 == [t EXCEPT
               !.nodes.wrapper = Some(make("div", {CSS.wrapper})),
               \* a button of the previous wrapper stays where it was
               !.nodes.button  = IF @ = "inWrapper" THEN "detached" ELSE @]
  IN  IF pluginHasData(t1) THEN showFileData(t1) ELSE prepareUploadButton(t1)

\* uploadingFailed that shows the default text whatever it is given.
uploadingFailedDefaultText(t, errorMessage) ==
  removeLoader([t EXCEPT !.notified =
                  Append(@, [message |-> "File upload failed", style |-> "error"])])

\* uploadingFailed that also puts the block back into its empty state.
uploadingFailedResets(t, errorMessage) ==
  removeLoader([t EXCEPT !.notified =
                  Append(@, [message |-> errorMessage, style |-> "error"]),
                         !._displayData = EmptyDisplayData])

uploadingFailed(t, errorMessage) ==
  removeLoader([t EXCEPT !.notified =
                  Append(@, [message |-> errorMessage, style |-> "error"])])

\* The extension onUpload stores for a file name.
extensionOf(name) ==
  IF TruthyStr(name) THEN Some(ToLowerCase(Pop(Split(name[1], "."))))
                     ELSE Some("")

\* A response is a success when body.success and body.file are truthy.
Succeeds(body) == body.success # Undef /\ body.success[1] # 0 /\ body.file # Undef

onUpload(t, response) ==
  LET body == response
  IN  IF Succeeds(body)
        THEN LET name  == body.file[1].name
                 size  == body.file[1].size
                 title == body.file[1].title
                 t1 == [t EXCEPT !._displayData =
                          [ file  |-> [ extension |-> extensionOf(name),
                                        name      |-> name,
                                        size      |-> size ],
                            title |-> title ]]
             IN  IF t1.nodes.button = "null"
                   THEN t1   \* null.remove() throws: the handler stops here
                   ELSE LET t2 == IF t1.nodes.button = "inWrapper"
                                    THEN [t1 EXCEPT
                                            !.nodes.button  = "detached",
                                            !.nodes.wrapper = Some([@[1] EXCEPT
                                               !.children = SelectSeq(@,
                                                  LAMBDA c : c.kind # "button")])]
                                    ELSE t1
                        IN  removeLoader(showFileData(t2))
        ELSE uploadingFailed(t, t.config.errorMessage)

\* set data(data)
setData(t, data) ==
  [t EXCEPT !._data = IF data = Undef THEN EmptyData ELSE data[1],
            !.dispatched = @ + 1]

\* get data() and save()
save(t) == t._data

validate(savedData) == TRUE

(* ------------------------------------------------------------------ *)
(* Inputs                                                             *)
(* ------------------------------------------------------------------ *)

\* The file objects a backend response may carry ({name, size, title}; the
\* url is never read).
Files ==
  { [name |-> Some("a.pdf"),         size |-> Some(2048),    title |-> Some("A")],
    [name |-> Some("Report.PDF"),    size |-> Some(1048576), title |-> Some("")],
    [name |-> Undef,                 size |-> Undef,         title |-> Undef],
    [name |-> Some("readme"),        size |-> Some(0),       title |-> Some("R")],
    [name |-> Some("x.constructor"), size |-> Some(999999),  title |-> Some("C")],
    [name |-> Some("src.tar.JPEG"),  size |-> Some(256),     title |-> Some("T")] }

\* The responses the uploader may hand to onUpload: success with each file,
\* and the shapes with a falsy success or without a file.
Responses ==
  { [success |-> Some(1), file |-> Some(f)] : f \in Files }
  \cup
  { [success |-> Some(0), file |-> Undef],
    [success |-> Undef,   file |-> Some([name |-> Some("a.pdf"), size |-> Some(2048),
                                         title |-> Some("A")])],
    [success |-> Some(1), file |-> Undef] }

\* The data argument of the constructor and of the data setter.
DataInputs ==
  { Undef,
    Some([ file  |-> Some([ url |-> Some("/f/old.txt"), name |-> Some("old.txt"),
                            size |-> Some(10), extension |-> Some("txt") ]),
           title |-> Some("Old") ]) }

\* config.errorMessage as passed to the constructor.
ErrorMessageInputs == { Undef, Some("Upload rejected") }

\* The messages the uploader passes to onError.
UploaderErrors == { "Network error" }

(* ------------------------------------------------------------------ *)
(* State machine                                                      *)
(* ------------------------------------------------------------------ *)

\* The handler that ran last: its kind, the response it was given, whether
\* the upload it settled overtook one started before it, and whether the
\* handler before it was onUpload with the same response.
NoEvent == [kind |-> "constructor", response |-> Undef, overtook |-> FALSE,
            repeats |-> FALSE]

\* Uploader.uploadSelectedFile({onPreview}): the file picker opens; the
\* upload it leads to has not called onPreview yet.
uploadSelectedFile(uploads) ==
  Append(uploads, [phase |-> "picking", since |-> "none"])

\* Upload i waits for the user to choose a file / is being transferred.
Picking(i) == inflight[i].phase = "picking"

Uploading(i) == inflight[i].phase = "uploading"

\* The handler's result becomes the tool's state.
Becomes(t) ==
  /\ config'       = t.config
  /\ _data'        = t._data
  /\ _displayData' = t._displayData
  /\ nodes'        = t.nodes
  /\ timers'       = t.timers
  /\ notified'     = t.notified
  /\ dispatched'   = t.dispatched

\* constructor({data, config, api, block})
Init ==
  /\ \E m \in ErrorMessageInputs :
       config = [ buttonText   |-> "Select file to upload",
                  errorMessage |-> IF TruthyStr(m) THEN m[1]
                                                   ELSE "File upload failed" ]
  /\ \E d \in DataInputs : _data = IF d = Undef THEN EmptyData ELSE d[1]
  /\ _displayData = EmptyDisplayData
  /\ nodes = [wrapper |-> Undef, button |-> "null", title |-> Undef]
  /\ inflight = <<>>
  /\ timers = <<>>
  /\ notified = <<>>
  /\ dispatched = 0
  /\ lastEvent = NoEvent
  /\ lastSuccess = Undef

\* The host calls render().
Render ==
  /\ Becomes(render(Entering))
  /\ inflight' = [i \in 1..Len(inflight) |->
                    [inflight[i] EXCEPT !.since = IF inflight[i].phase = "uploading"
                                                    THEN "render" ELSE @]]
  /\ lastEvent' = [NoEvent EXCEPT !.kind = "render"]
  /\ UNCHANGED lastSuccess

\* The host (or a settings callback) assigns tool.data.
SetData ==
  /\ \E d \in DataInputs : Becomes(setData(Entering, d))
  /\ lastEvent' = [NoEvent EXCEPT !.kind = "setData"]
  /\ UNCHANGED <<inflight, lastSuccess>>

\* A click on the button or on the file card: enableFileUpload() asks the
\* uploader to open the file picker.
Click ==
  /\ nodes.wrapper # Undef
  /\ Len(inflight) + Len(timers) < MaxPending
  /\ Becomes(Entering)
  /\ inflight' = uploadSelectedFile(inflight)
  /\ lastEvent' = [NoEvent EXCEPT !.kind = "click"]
  /\ UNCHANGED lastSuccess

\* The user has chosen a file: the uploader calls onPreview and starts the
\* upload.
Preview ==
  \E i \in 1..Len(inflight) :
    /\ Picking(i)
    /\ Becomes(onPreview(Entering))
    /\ inflight' = [inflight EXCEPT ![i].phase = "uploading", ![i].since = "none"]
    /\ lastEvent' = [NoEvent EXCEPT !.kind = "onPreview"]
    /\ UNCHANGED lastSuccess

\* The uploads still running once upload i has settled, in the order in
\* which they were started.
Settle(i) == SubSeq(inflight, 1, i - 1) \o SubSeq(inflight, i + 1, Len(inflight))

\* Upload i settles while an upload started before it is still running.
Overtakes(i) == \E j \in 1..(i - 1) : Uploading(j)

\* An upload settles with a response: the uploader calls onUpload(response).
UploadDone ==
  \E i \in 1..Len(inflight) :
    /\ Uploading(i)
    /\ \E r \in Responses :
         /\ Becomes(onUpload(Entering, r))
         /\ lastEvent' = [kind |-> "onUpload", response |-> Some(r),
                          overtook |-> Overtakes(i),
                          repeats |-> /\ lastEvent.kind = "onUpload"
                                      /\ lastEvent.response = Some(r)]
         /\ lastSuccess' = IF Succeeds(r) THEN r.file ELSE lastSuccess
    /\ inflight' = Settle(i)

\* An upload is rejected: the uploader calls onError(error).
UploadError ==
  \E i \in 1..Len(inflight), e \in UploaderErrors :
    /\ Uploading(i)
    /\ Becomes(uploadingFailed(Entering, e))
    /\ inflight' = Settle(i)
    /\ lastEvent' = [NoEvent EXCEPT !.kind = "onError", !.overtook = Overtakes(i)]
    /\ UNCHANGED lastSuccess

\* The oldest removeLoader timer expires (all have the same delay).
Timer ==
  /\ timers # <<>>
  /\ Becomes(removeLoaderCallback([Entering EXCEPT !.timers = Tail(@)]))
  /\ inflight' = [i \in 1..Len(inflight) |->
                    [inflight[i] EXCEPT !.since = IF @ = "none" /\ inflight[i].phase = "uploading"
                                                    THEN "timer" ELSE @]]
  /\ lastEvent' = [NoEvent EXCEPT !.kind = "timer"]
  /\ UNCHANGED lastSuccess

Next ==
  \/ Render
  \/ SetData
  \/ Click
  \/ Preview
  \/ UploadDone
  \/ UploadError
  \/ Timer

Spec == Init /\ [][Next]_vars

(* ------------------------------------------------------------------ *)
(* Observations                                                       *)
(* ------------------------------------------------------------------ *)

Rendered == nodes.wrapper # Undef

Wrapper == nodes.wrapper[1]

LoadingClasses == {CSS.wrapperLoading, CSS.loader}

\* The wrapper carries both loading classes / at least one of them.
Loading == Rendered /\ LoadingClasses \subseteq Wrapper.classes

SomeLoading == Rendered /\ LoadingClasses \cap Wrapper.classes # {}

\* The file card: the with-file class, one icon and one file-info element.
CardView ==
  /\ Rendered
  /\ CSS.wrapperWithFile \in Wrapper.classes
  /\ Len(Wrapper.children) = 2
  /\ Wrapper.children[1].kind = "fileIcon"
  /\ Wrapper.children[2].kind = "fileInfo"

\* The empty view: no with-file class, the upload button alone.
ButtonView ==
  /\ Rendered
  /\ CSS.wrapperWithFile \notin Wrapper.classes
  /\ Len(Wrapper.children) = 1
  /\ Wrapper.children[1].kind = "button"
  /\ nodes.button = "inWrapper"

FailedUpload ==
  lastEvent.kind = "onUpload" /\ ~Succeeds(lastEvent.response[1])

SucceededUpload ==
  lastEvent.kind = "onUpload" /\ Succeeds(lastEvent.response[1])

\* The file of the response onUpload was last given.
UploadedFile == lastEvent.response[1].file[1]

(* ------------------------------------------------------------------ *)
(* Properties                                                         *)
(* ------------------------------------------------------------------ *)

\* C1: after onUpload with a truthy success and a file, the BlockData that
\* the data getter and save() return carries the uploaded file's name and
\* size and its title, and the handler has called block.dispatchChange.
C1_UploadReachesBlockData ==
  SucceededUpload =>
    /\ save(This).title = UploadedFile.title
    /\ save(This).file # Undef
    /\ save(This).file[1].name = UploadedFile.name
    /\ save(This).file[1].size = UploadedFile.size
    /\ dispatched > 0

\* C2: an onUpload whose response has a falsy success or no file leaves
\* _displayData, _data and every node (hence the view) as they were, and
\* shows one notification: config.errorMessage with style 'error'.
C2_FailedUploadKeepsState ==
  [][ (lastEvent'.kind = "onUpload" /\ ~Succeeds(lastEvent'.response[1])) =>
        /\ _displayData' = _displayData
        /\ _data' = _data
        /\ nodes' = nodes
        /\ (CardView <=> CardView') /\ (ButtonView <=> ButtonView')
        /\ notified' = <<[message |-> config.errorMessage, style |-> "error"]>>
    ]_vars

\* A failed upload on a populated block configured with its own message.
C2_Witness ==
  /\ FailedUpload
  /\ CardView
  /\ config.errorMessage = "Upload rejected"
  /\ notified = <<[message |-> "Upload rejected", style |-> "error"]>>

\* The substring after the last '.', or '' when the string has no '.'.
AfterLastDot(str) ==
  IF \E i \in 1..Len(str) : SubSeq(str, i, i) = "."
    THEN LET last == CHOOSE i \in 1..Len(str) :
                       /\ SubSeq(str, i, i) = "."
                       /\ \A k \in (i + 1)..Len(str) : SubSeq(str, k, k) # "."
         IN  SubSeq(str, last + 1, Len(str))
    ELSE ""

\* C3: after a successful onUpload with a file name string, the extension
\* in _displayData is the lower-cased substring after the name's last '.',
\* and '' when the name has no '.'.
C3_ExtensionIsSuffixAfterLastDot ==
  (SucceededUpload /\ UploadedFile.name # Undef) =>
    _displayData.file.extension = Some(ToLowerCase(AfterLastDot(UploadedFile.name[1])))

\* The size elements of the file card.
SizeElements == SelectSeq(Wrapper.children[2].children, LAMBDA c : c.kind = "size")

\* text shows n / d to one decimal, rounded to a nearest tenth.
RoundedToOneDecimal(text, n, d) ==
  \E t \in {(10 * n) \div d, (10 * n) \div d + 1} :
    /\ 2 * Abs(d * t - 10 * n) <= d
    /\ text = ToString(t \div 10) \o "." \o ToString(t % 10)

\* C4: for every integer size in _displayData, the file card shows one size
\* element: tagged MiB with size / 2^20 to one decimal when size >= 10^6,
\* tagged KiB with size / 2^10 to one decimal otherwise.
C4_SizeShownInKiBOrMiB ==
  (CardView /\ _displayData.file.size # Undef) =>
    LET size == _displayData.file.size[1]
    IN  /\ Len(SizeElements) = 1
        /\ IF size >= 1000000
             THEN /\ SizeElements[1].dataSize = "MiB"
                  /\ RoundedToOneDecimal(SizeElements[1].textContent, size, 2^20)
             ELSE /\ SizeElements[1].dataSize = "KiB"
                  /\ RoundedToOneDecimal(SizeElements[1].textContent, size, 2^10)

\* C6: the icon of the file card is the generic one, with no color and no
\* 'longer' class, when the extension is not a key of the color table; it
\* is the custom one in the table's color when the extension is a key, and
\* then carries 'longer' exactly when the extension has more than 3
\* characters.
C6_IconFollowsColorTable ==
  CardView =>
    LET icon == Wrapper.children[1]
        extension == IF _displayData.file.extension = Undef
                       THEN "" ELSE _displayData.file.extension[1]
    IN  IF extension \in DOMAIN EXTENSIONS
          THEN /\ icon.innerHTML = "CustomFileIcon"
               /\ icon.color = EXTENSIONS[extension]
               /\ ("longer" \in icon.classes) <=> (Len(extension) > 3)
          ELSE /\ icon.innerHTML = "FileIcon"
               /\ icon.color = ""
               /\ "longer" \notin icon.classes

\* _displayData as onUpload derives it from a response's file.
DisplayDataOf(file) ==
  [ file  |-> [extension |-> extensionOf(file.name), name |-> file.name,
               size |-> file.size],
    title |-> file.title ]

\* C5: pluginHasData() is true exactly when some upload has succeeded since
\* construction (so it is false for a freshly constructed block, whatever
\* data it was given); a rendered block shows the file card exactly when it
\* is true and the upload button otherwise; and a block that shows the file
\* card never shows anything else afterwards.
C5_PopulatedIffUploadSucceeded ==
  /\ [](/\ pluginHasData(This) <=> (lastSuccess # Undef)
        /\ lastEvent.kind = "constructor" => ~pluginHasData(This)
        /\ Rendered => /\ CardView <=> pluginHasData(This)
                       /\ ButtonView <=> ~pluginHasData(This))
  /\ [][CardView => CardView']_vars

\* A populated block rendered again, its last upload having carried an
\* empty title.
C5_Witness ==
  /\ lastEvent.kind = "render"
  /\ lastSuccess # Undef
  /\ _displayData.title = Some("")
  /\ CardView

\* C7: an onUpload that repeats the response of the successful onUpload
\* that ran just before it leaves _displayData and the wrapper (children,
\* classes, listeners) exactly as the first call left them: one icon, one
\* file-info element with at most one title and at most one size, and a
\* single click listener, enableFileUpload.
C7_RepeatedUploadIsIdempotent ==
  [][ ( /\ SucceededUpload
        /\ lastEvent'.kind = "onUpload"
        /\ lastEvent'.response = lastEvent.response ) =>
        /\ _displayData' = _displayData
        /\ nodes'.wrapper = nodes.wrapper
        /\ CardView'
        /\ Len(SelectSeq(Wrapper'.children[2].children,
                         LAMBDA c : c.kind = "title")) <= 1
        /\ Len(SelectSeq(Wrapper'.children[2].children,
                         LAMBDA c : c.kind = "size")) <= 1
        /\ Wrapper'.listeners = <<[type |-> "click", callback |-> "enableFileUpload"]>>
    ]_vars

\* The same successful response handled twice in a row, the card showing a
\* title and a size.
C7_Witness ==
  /\ SucceededUpload
  /\ lastEvent.repeats
  /\ CardView
  /\ Len(Wrapper.children[2].children) = 2

\* C8: a rendered block with no upload running and no removeLoader timer
\* pending carries neither loading class; every completion callback
\* (onUpload, uploadingFailed) schedules one more timer, of delay
\* LOADER_TIMEOUT, and leaves the loading classes as they are; a loading
\* class only leaves the wrapper when a timer fires (or when render()
\* builds a new wrapper).
C8_LoaderClearedOnlyByTimer ==
  /\ []((Rendered /\ timers = <<>> /\ \A i \in 1..Len(inflight) : ~Uploading(i))
          => ~SomeLoading)
  /\ [][ lastEvent'.kind \in {"onUpload", "onError"} =>
           /\ timers' = Append(timers, LOADER_TIMEOUT)
           /\ Wrapper'.classes \cap LoadingClasses = Wrapper.classes \cap LoadingClasses
       ]_vars
  /\ [][ ( /\ SomeLoading
           /\ ~((Wrapper.classes \cap LoadingClasses) \subseteq Wrapper'.classes) )
         => lastEvent'.kind \in {"timer", "render"} ]_vars

\* The last timer has fired after a successful upload: the loader is gone.
C8_Witness ==
  /\ lastEvent.kind = "timer"
  /\ timers = <<>>
  /\ inflight = <<>>
  /\ lastSuccess # Undef
  /\ CardView
  /\ ~SomeLoading

\* C9: _displayData is always that of the successful response that arrived
\* last (the constructor's when none has arrived): neither the order in
\* which the uploads were started nor a later failure changes that.
C9_LastArrivedSuccessWins ==
  _displayData = IF lastSuccess = Undef THEN EmptyDisplayData
                                        ELSE DisplayDataOf(lastSuccess[1])

\* A second click was accepted while an upload was running, and the upload
\* started later has settled first, with a success: its file is shown
\* while the upload started before it is still running.
C9_Witness ==
  /\ SucceededUpload
  /\ lastEvent.overtook
  /\ \E i \in 1..Len(inflight) : Uploading(i)

\* C10 (as stated): while an upload that called onPreview on the current
\* wrapper is still running, the wrapper carries the loading classes.
C10_LoaderStaysUntilCompletion ==
  \A i \in 1..Len(inflight) :
    (Uploading(i) /\ inflight[i].since # "render") => Loading

\* C10 (amended): while an upload that called onPreview is still running
\* and neither a removeLoader timer has fired nor render() has run since,
\* the wrapper carries the loading classes, whatever clicks, previews and
\* completions of other uploads happened in between.
C10_LoaderStaysUntilTimer ==
  \A i \in 1..Len(inflight) :
    (Uploading(i) /\ inflight[i].since = "none") => Loading

\* Another upload has just completed and its timer is pending while an
\* upload previewed earlier is still running under the loader.
C10_Witness ==
  /\ lastEvent.kind \in {"onUpload", "onError"}
  /\ timers # <<>>
  /\ \E i \in 1..Len(inflight) : Uploading(i) /\ inflight[i].since = "none"
  /\ Loading

====
